---------------------------- MODULE Spec2Model ----------------------------
(***************************************************************************)
(* A model of src/main.c: the frame reader (http_decode), the request      *)
(* parser (new_request, parse_status_line, parse_header_line), the         *)
(* response encoder (reason, add_header, construct_status_line,            *)
(* construct_headers, encode), send_response and the orchestrator          *)
(* handle_request.                                                         *)
(*                                                                         *)
(* A C string is a sequence of bytes that holds no NUL; a byte is a        *)
(* one-character string.  The null pointer is NULL, a value no C string    *)
(* equals.  A linked list of Header nodes is the sequence of its           *)
(* <<name, value>> pairs from the head.                                    *)
(***************************************************************************)
EXTENDS Integers, Sequences, FiniteSets, TLC

VARIABLES
    pc,             \* position in the code under execution
    configuration,  \* Configuration: [max_reqsize, max_ressize]
    wire,           \* bytes the peer has still to send on the connection
    fill,           \* value the uninitialised stack bytes happen to hold
    buffer,         \* http_decode: buffer[0 .. read_ptr-1], the bytes received
    read_ptr,       \* http_decode: read_ptr
    headers,        \* handle_request: char *headers (raw header text)
    body,           \* handle_request: char *body
    request,        \* Request
    response,       \* Response
    reason_str,     \* construct_status_line: the result of reason()
    encodes,        \* number of calls of encode
    sock,           \* socket calls issued on the connection, in order
    sends,          \* send calls: the length passed and the value returned
    frees,          \* the structures released so far, in order
    ub,             \* undefined behaviour the execution has run into
    heap            \* number of live heap blocks of each kind

vars == <<pc, configuration, wire, fill, buffer, read_ptr, headers, body,
          request, response, reason_str, encodes, sock, sends, frees, ub,
          heap>>

---------------------------------------------------------------------------
(* Bytes and C strings *)

\* the terminating zero byte
NUL == "NUL"
CR == "\r"
LF == "\n"
SP == " "
TAB == "\t"
COLON == ":"

NULL == <<"(null)">>

\* "\r\n\r\n", the needle of the strstr call in http_decode
SEPARATOR == <<CR, LF, CR, LF>>

\* isspace() in the C locale: space, \t, \n, \v, \f, \r
isspace(c) == c \in {SP, TAB, LF, CR, "\f", "VT"}

\* strchr(s, c) as a 1-based index into s, 0 when c does not occur
strchr(s, c) ==
    IF \E i \in 1..Len(s) : s[i] = c
    THEN CHOOSE i \in 1..Len(s) : s[i] = c /\ \A j \in 1..(i-1) : s[j] # c
    ELSE 0

\* the string that starts at 1-based index i of s
From(s, i) == SubSeq(s, i, Len(s))

\* the C string stored at the start of memory m: the bytes before the first NUL
CStr(m) == IF strchr(m, NUL) = 0 THEN m ELSE SubSeq(m, 1, strchr(m, NUL) - 1)

\* strstr(hay, needle) as a 1-based index into hay, 0 when there is no match
strstr(hay, needle) ==
    LET hit(i) == SubSeq(hay, i, i + Len(needle) - 1) = needle
        range == 1..(Len(hay) - Len(needle) + 1)
    IN  IF \E i \in range : hit(i)
        THEN CHOOSE i \in range : hit(i) /\ \A j \in 1..(i-1) : ~hit(j)
        ELSE 0

---------------------------------------------------------------------------
(* Request parser *)

EmptyRequest ==
    [method |-> NULL, path |-> NULL, http_version |-> NULL,
     header_count |-> 0, headers |-> <<>>]

\* trim_whitespace
RECURSIVE SkipLeading(_)
SkipLeading(str) ==
    IF str # <<>> /\ isspace(Head(str)) THEN SkipLeading(Tail(str)) ELSE str

RECURSIVE DropTrailing(_)
DropTrailing(str) ==
    IF Len(str) > 1 /\ isspace(str[Len(str)])
    THEN DropTrailing(SubSeq(str, 1, Len(str) - 1))
    ELSE str

trim_whitespace(str) ==
    LET s == SkipLeading(str)
    IN  IF s = <<>> THEN s ELSE DropTrailing(s)

\* strtok_r(str, "\n", &saveptr): skip the leading delimiters, cut the token at
\* the next delimiter; line = NULL when only delimiters are left
RECURSIVE SkipDelims(_)
SkipDelims(str) ==
    IF str # <<>> /\ Head(str) = LF THEN SkipDelims(Tail(str)) ELSE str

strtok_r(str) ==
    LET s == SkipDelims(str)
        d == strchr(s, LF)
    IN  IF s = <<>> THEN [line |-> NULL, saveptr |-> <<>>]
        ELSE IF d = 0 THEN [line |-> s, saveptr |-> <<>>]
        ELSE [line |-> SubSeq(s, 1, d - 1), saveptr |-> From(s, d + 1)]

\* parse_status_line: the method is stored before the second space is looked for
parse_status_line(line, req) ==
    LET space1 == strchr(line, SP)
        rest   == From(line, space1 + 1)
        space2 == strchr(rest, SP)
        req1   == [req EXCEPT !.method = SubSeq(line, 1, space1 - 1)]
    IN  IF space1 = 0 THEN [ok |-> FALSE, request |-> req]
        ELSE IF space2 = 0 THEN [ok |-> FALSE, request |-> req1]
        ELSE [ok |-> TRUE,
              request |-> [req1 EXCEPT !.path = SubSeq(rest, 1, space2 - 1),
                                       !.http_version = From(rest, space2 + 1)]]

\* parse_header_line linking the new node after the last one instead
parse_header_line_AtTail(line, req) ==
    LET colon == strchr(line, COLON)
        name  == trim_whitespace(SubSeq(line, 1, colon - 1))
        value == trim_whitespace(From(line, colon + 1))
    IN  IF colon = 0 THEN [ok |-> FALSE, request |-> req]
        ELSE [ok |-> TRUE,
              request |-> [req EXCEPT !.headers = @ \o <<<<name, value>>>>,
                                      !.header_count = @ + 1]]

\* parse_header_line: split at the first colon, trim, push at the head
parse_header_line(line, req) ==
    LET colon == strchr(line, COLON)
        name  == trim_whitespace(SubSeq(line, 1, colon - 1))
        value == trim_whitespace(From(line, colon + 1))
    IN  IF colon = 0 THEN [ok |-> FALSE, request |-> req]
        ELSE [ok |-> TRUE,
              request |-> [req EXCEPT !.headers = <<<<name, value>>>> \o @,
                                      !.header_count = @ + 1]]

\* new_request without the break: the lines after a colon-less line are parsed too
RECURSIVE HeaderLoop_NoBreak(_, _)
HeaderLoop_NoBreak(saveptr, req) ==
    LET t == strtok_r(saveptr)
        p == parse_header_line(t.line, req)
    IN  IF t.line = NULL THEN req
        ELSE HeaderLoop_NoBreak(t.saveptr, [p.request EXCEPT !.method =
                                               IF p.ok THEN @ ELSE NULL])

\* the while loop of new_request over the remaining lines
RECURSIVE HeaderLoop(_, _)
HeaderLoop(saveptr, req) ==
    LET t == strtok_r(saveptr)
        p == parse_header_line(t.line, req)
    IN  IF t.line = NULL THEN req
        ELSE IF ~p.ok THEN [req EXCEPT !.method = NULL]
        ELSE HeaderLoop(t.saveptr, p.request)

new_request(hdrs) ==
    LET t == strtok_r(hdrs)
        p == parse_status_line(t.line, EmptyRequest)
    IN  IF t.line = NULL THEN EmptyRequest
        ELSE IF ~p.ok THEN p.request
        ELSE HeaderLoop(t.saveptr, p.request)

---------------------------------------------------------------------------
(* Frame reader: http_decode *)

\* bytes of stack that lie between the end of buffer[] and the next zero byte
StackSlack == 2

\* what a string function sees from the start of buffer[]: the bytes received,
\* then the stack as it was found (buffer[] is never initialised and never
\* terminated inside the loop), up to the first zero byte after the array
Memory(buf, max_reqsize) ==
    buf \o [i \in 1..(max_reqsize - Len(buf) + StackSlack) |-> fill] \o <<NUL>>

\* undefined behaviour of a string function that reads Memory up to and
\* including index last (1-based), when n bytes have been received
ReadFaults(last, n, max_reqsize) ==
    (IF last > n THEN {"uninitialised read"} ELSE {})
        \cup (IF last > max_reqsize THEN {"read past buffer"} ELSE {})

\* the statements after the loop: buffer[read_ptr] = '\0', strdup(buffer)
LoopExit(buf, n, max_reqsize) ==
    [headers |-> IF n > 0 THEN CStr(buf) ELSE NULL,
     body    |-> NULL,
     ub      |-> IF n >= max_reqsize THEN {"write past buffer"} ELSE {}]

\* the loop going on to the next recv when recv returned nothing
LoopBody_NoBreak(buf, n, max_reqsize, bytes_read, chunk) ==
    LET buf1       == buf \o chunk
        n1         == n + bytes_read
        text       == CStr(Memory(buf1, max_reqsize))
        body_start == strstr(text, SEPARATOR)
        faults     == ReadFaults(Len(text) + 1, n1, max_reqsize)
    IN  IF bytes_read <= 0
        THEN [done |-> FALSE, buffer |-> buf, read_ptr |-> n,
              headers |-> NULL, body |-> NULL, ub |-> {}]
        ELSE IF body_start # 0
        THEN [done |-> TRUE, buffer |-> buf1, read_ptr |-> n1,
              headers |-> SubSeq(text, 1, body_start - 1),
              body |-> From(text, body_start + 4), ub |-> faults]
        ELSE [done |-> FALSE, buffer |-> buf1, read_ptr |-> n1,
              headers |-> NULL, body |-> NULL, ub |-> faults]

\* one iteration of the while loop, recv having returned bytes_read and
\* stored chunk at buffer + read_ptr
LoopBody(buf, n, max_reqsize, bytes_read, chunk) ==
    LET buf1       == buf \o chunk
        n1         == n + bytes_read
        text       == CStr(Memory(buf1, max_reqsize))
        body_start == strstr(text, SEPARATOR)
        faults     == ReadFaults(Len(text) + 1, n1, max_reqsize)
    IN  IF bytes_read <= 0
        THEN [done |-> TRUE, buffer |-> buf, read_ptr |-> n]
                 @@ LoopExit(buf, n, max_reqsize)
        ELSE IF body_start # 0
        THEN [done |-> TRUE, buffer |-> buf1, read_ptr |-> n1,
              headers |-> SubSeq(text, 1, body_start - 1),
              body |-> From(text, body_start + 4), ub |-> faults]
        ELSE [done |-> FALSE, buffer |-> buf1, read_ptr |-> n1,
              headers |-> NULL, body |-> NULL, ub |-> faults]

---------------------------------------------------------------------------
(* Response encoder *)

STATUS_TABLE_SIZE == 512

\* string literals of the encoder and of handle_request
HTTP11 == <<"H", "T", "T", "P", "/", "1", ".", "1">>
OK == <<"O", "K">>
Created == <<"C", "r", "e", "a", "t", "e", "d">>
NoContent == <<"N", "o", SP, "C", "o", "n", "t", "e", "n", "t">>
ContentLength == <<"C", "o", "n", "t", "e", "n", "t", "-", "L", "e", "n", "g", "t", "h">>
Connection == <<"C", "o", "n", "n", "e", "c", "t", "i", "o", "n">>
close == <<"c", "l", "o", "s", "e">>
HelloPage ==
    <<"<", "h", "t", "m", "l", ">", "<", "b", "o", "d", "y", ">", "<", "h", "4", ">", "H", "e", "l", "l", "o", "<", "/", "h", "4", ">">>
    \o <<"<", "/", "b", "o", "d", "y", ">", "<", "/", "h", "t", "m", "l", ">">>

\* a reason pointer that points to no string
WILD == <<"(wild)">>

\* init_status_tbl: statuses[] zeroed, then the three known codes
statuses ==
    [i \in 0..(STATUS_TABLE_SIZE - 1) |->
        CASE i = 200 % STATUS_TABLE_SIZE -> [code |-> 200, reason |-> OK]
          [] i = 201 % STATUS_TABLE_SIZE -> [code |-> 201, reason |-> Created]
          [] i = 204 % STATUS_TABLE_SIZE -> [code |-> 204, reason |-> NoContent]
          [] OTHER -> [code |-> 0, reason |-> NULL]]

\* a % b of C for b > 0: the quotient is truncated towards zero
CRem(a, b) == IF a >= 0 THEN a % b ELSE -((-a) % b)

\* the index reason() computes for code
StatusIndex(code) == CRem(code, STATUS_TABLE_SIZE)

\* reason: stray is what lies in memory at statuses[index] when index is not
\* an index of the table
reason(code, stray) ==
    LET index == StatusIndex(code)
        entry == IF index \in DOMAIN statuses THEN statuses[index] ELSE stray
    IN  IF entry.code = code THEN entry.reason ELSE NULL

\* sprintf "%d" and "%zu"
RECURSIVE Digits(_)
Digits(n) ==
    LET d == <<"0", "1", "2", "3", "4", "5", "6", "7", "8", "9">>
    IN  IF n < 10 THEN <<d[n + 1]>> ELSE Digits(n \div 10) \o <<d[(n % 10) + 1]>>

Decimal(n) == IF n < 0 THEN <<"-">> \o Digits(-n) ELSE Digits(n)

\* crlf
crlf(content) == content \o <<CR, LF>>

\* add_header linking the new node before the first one instead
add_header_AtHead(resp, name, value) ==
    [resp EXCEPT !.headers = <<<<name, value>>>> \o @,
                 !.header_count = @ + 1]

\* add_header: a new node at the tail of the list
add_header(resp, name, value) ==
    [resp EXCEPT !.headers = Append(@, <<name, value>>),
                 !.header_count = @ + 1]

\* construct_status_line: the version is the literal "HTTP/1.1"
construct_status_line(resp, stray) ==
    LET phrase == reason(resp.code, stray)
    IN  IF phrase = NULL THEN NULL
        ELSE crlf(HTTP11 \o <<SP>> \o Decimal(resp.code) \o <<SP>> \o phrase)

\* the text construct_headers appends to headers_str
RECURSIVE HeaderText(_)
HeaderText(hs) ==
    IF hs = <<>> THEN <<>>
    ELSE Head(hs)[1] \o <<COLON, SP>> \o Head(hs)[2] \o crlf(<<>>)
             \o HeaderText(Tail(hs))

\* construct_headers: the text, and the size of the block malloc'ed for it
construct_headers(resp) ==
    [text |-> HeaderText(resp.headers), size |-> resp.header_count * 2 * 80]

\* encode adding its two headers only to a response that has not got them yet
encode_HeadersOnce(resp, stray) ==
    LET index       == StatusIndex(resp.code)
        phrase      == reason(resp.code, stray)
        status_line == construct_status_line(resp, stray)
        body_str    == Decimal(Len(resp.body))
        resp1       == IF \E i \in 1..Len(resp.headers) :
                                resp.headers[i][1] = ContentLength
                       THEN resp
                       ELSE add_header(add_header(resp, ContentLength, body_str),
                                       Connection, close)
        hdrs        == construct_headers(resp1)
        stray_read  == IF index \in DOMAIN statuses THEN {}
                       ELSE {"read outside statuses"}
        overflow    == IF Len(hdrs.text) + 1 > hdrs.size
                       THEN {"write past headers_str"} ELSE {}
    IN  IF status_line = NULL
        THEN [response |-> resp, crashed |-> resp, ub |-> stray_read,
              may_crash |-> FALSE, must_crash |-> FALSE]
        ELSE [response |->
                 [resp1 EXCEPT !.encoded_response =
                     status_line \o hdrs.text \o crlf(<<>>) \o resp.body],
              crashed |-> IF phrase = WILD THEN resp ELSE resp1,
              ub |-> stray_read \cup (IF phrase = WILD THEN {} ELSE overflow),
              may_crash |-> overflow # {},
              must_crash |-> phrase = WILD]

\* encode.  response is the response when encode returns; crashed is the
\* response when the process dies in it.  sprintf of a reason pointer that
\* points to no string kills the process (must_crash); a header text longer
\* than its block corrupts the heap, and encode returns or the process dies
\* (may_crash).
encode(resp, stray) ==
    LET index       == StatusIndex(resp.code)
        phrase      == reason(resp.code, stray)
        status_line == construct_status_line(resp, stray)
        body_str    == Decimal(Len(resp.body))
        resp1       == add_header(add_header(resp, ContentLength, body_str),
                                  Connection, close)
        hdrs        == construct_headers(resp1)
        stray_read  == IF index \in DOMAIN statuses THEN {}
                       ELSE {"read outside statuses"}
        overflow    == IF Len(hdrs.text) + 1 > hdrs.size
                       THEN {"write past headers_str"} ELSE {}
    IN  IF status_line = NULL
        THEN [response |-> resp, crashed |-> resp, ub |-> stray_read,
              may_crash |-> FALSE, must_crash |-> FALSE]
        ELSE [response |->
                 [resp1 EXCEPT !.encoded_response =
                     status_line \o hdrs.text \o crlf(<<>>) \o resp.body],
              crashed |-> IF phrase = WILD THEN resp ELSE resp1,
              ub |-> stray_read \cup (IF phrase = WILD THEN {} ELSE overflow),
              may_crash |-> overflow # {},
              must_crash |-> phrase = WILD]

---------------------------------------------------------------------------
(* Heap blocks: malloc, strdup, free *)

\* the pointers that hold a block of their own; a header node counts with its
\* name and its value as one block
HeapKinds ==
    {"headers", "body", "request.method", "request.path", "request.http_version",
     "request.headers", "response.http_version", "response.body",
     "response.headers", "response.encoded_response", "status_line",
     "headers_str", "crlf"}

NoBlocks == [k \in HeapKinds |-> 0]

\* the number of blocks behind a pointer: none behind NULL
Ptr(p) == IF p = NULL THEN 0 ELSE 1

\* the live blocks of h after d[k] blocks of kind k are allocated / released
malloc(h, d) == [k \in HeapKinds |-> h[k] + (IF k \in DOMAIN d THEN d[k] ELSE 0)]
free(h, d) == [k \in HeapKinds |-> h[k] - (IF k \in DOMAIN d THEN d[k] ELSE 0)]

\* http_decode: *headers_out and *body_out are malloc'ed / strdup'ed
http_decode_blocks(h, hdrs, bdy) ==
    malloc(h, "headers" :> Ptr(hdrs) @@ "body" :> Ptr(bdy))

\* new_request: the strdup's of parse_status_line and the nodes of
\* parse_header_line; request.method = NULL releases nothing
new_request_blocks(h, hdrs) ==
    LET t == strtok_r(hdrs)
        p == parse_status_line(t.line, EmptyRequest)
    IN  IF t.line = NULL THEN h
        ELSE malloc(h, "request.method" :> Ptr(p.request.method)
                       @@ "request.path" :> Ptr(p.request.path)
                       @@ "request.http_version" :> Ptr(p.request.http_version)
                       @@ "request.headers" :> new_request(hdrs).header_count)

\* encode: status_line and headers_str are released, the blocks of crlf("")
\* (one for each header in construct_headers, one in encode) are not, and
\* encoded_response takes the new block whatever it pointed to
encode_blocks(h, resp, stray) ==
    IF construct_status_line(resp, stray) = NULL THEN h
    ELSE free(malloc(h, "status_line" :> 1
                        @@ "response.headers" :> 2
                        @@ "headers_str" :> 1
                        @@ "crlf" :> (Len(resp.headers) + 2) + 1
                        @@ "response.encoded_response" :> 1),
              "status_line" :> 1 @@ "headers_str" :> 1)

free_request(h, req) ==
    free(h, "request.headers" :> Len(req.headers)
            @@ "request.http_version" :> Ptr(req.http_version)
            @@ "request.method" :> Ptr(req.method)
            @@ "request.path" :> Ptr(req.path))

free_request_resources(h, req, hdrs, bdy) ==
    free(free_request(h, req), "headers" :> Ptr(hdrs) @@ "body" :> Ptr(bdy))

free_response(h, resp) ==
    free(h, "response.headers" :> Len(resp.headers)
            @@ "response.http_version" :> Ptr(resp.http_version)
            @@ "response.body" :> Ptr(resp.body)
            @@ "response.encoded_response" :> Ptr(resp.encoded_response))

---------------------------------------------------------------------------
(* handle_request, one action per step *)

SOCKET_ERROR == -1

EmptyResponse ==
    [header_count |-> 0, headers |-> <<>>, code |-> 0, http_version |-> NULL,
     body |-> NULL, encoded_response |-> NULL]

\* number of recv calls issued so far
recv_calls == Cardinality({i \in 1..Len(sock) : sock[i] = "recv"})

\* what an element read outside statuses[] may hold when code is looked up
StrayStatus(code) ==
    {[code |-> 0, reason |-> NULL], [code |-> code, reason |-> NULL],
     [code |-> code, reason |-> <<"?">>], [code |-> code, reason |-> WILD]}

\* values send() may return for a buffer of len bytes
SendResults(len) == {SOCKET_ERROR, 0, len - 1, len}

\* http_decode, one iteration of the loop: recv returns bytes_read
Recv(bytes_read, chunk) ==
    LET r == LoopBody(buffer, read_ptr, configuration.max_reqsize, bytes_read, chunk)
    IN  /\ pc = "READ_FRAME"
        /\ read_ptr < configuration.max_reqsize - 1
        /\ sock' = Append(sock, "recv")
        /\ buffer' = r.buffer
        /\ read_ptr' = r.read_ptr
        /\ headers' = r.headers
        /\ body' = r.body
        /\ ub' = ub \cup r.ub
        /\ pc' = IF r.done THEN "PARSE_REQUEST" ELSE "READ_FRAME"
        /\ wire' = From(wire, Len(chunk) + 1)
        /\ heap' = IF r.done THEN http_decode_blocks(heap, r.headers, r.body)
                   ELSE heap
        /\ UNCHANGED <<configuration, fill, request, response, reason_str,
                       encodes, sends, frees>>

\* the smaller of two numbers
Min(a, b) == IF a < b THEN a ELSE b

\* recv on a connection whose peer sends wire: one byte, or all the bytes that
\* are left and fit, or 0 (closed) or SOCKET_ERROR
RecvWire ==
    \E bytes_read \in {SOCKET_ERROR, 0, 1,
                       Min(Len(wire), configuration.max_reqsize - read_ptr)} :
        /\ bytes_read <= Len(wire)
        /\ Recv(bytes_read, SubSeq(wire, 1, bytes_read))

\* http_decode, the loop left because the buffer is full but for one byte
LoopEnd ==
    LET r == LoopExit(buffer, read_ptr, configuration.max_reqsize)
    IN  /\ pc = "READ_FRAME"
        /\ read_ptr >= configuration.max_reqsize - 1
        /\ headers' = r.headers
        /\ body' = r.body
        /\ ub' = ub \cup r.ub
        /\ pc' \in IF r.ub = {} THEN {"PARSE_REQUEST"}
                   ELSE {"PARSE_REQUEST", "crashed"}
        /\ heap' = http_decode_blocks(heap, r.headers, r.body)
        /\ UNCHANGED <<configuration, wire, fill, buffer, read_ptr, request,
                       response, reason_str, encodes, sock, sends, frees>>

\* handle_request: nothing was read
NoHeaders ==
    /\ pc = "PARSE_REQUEST"
    /\ headers = NULL
    /\ sock' = Append(sock, "close")
    /\ pc' = "done"
    /\ UNCHANGED <<configuration, wire, fill, buffer, read_ptr, headers, body,
                   request, response, reason_str, encodes, sends, frees, ub,
                   heap>>

\* handle_request: new_request and the test of request.method
ParseRequest ==
    /\ pc = "PARSE_REQUEST"
    /\ headers # NULL
    /\ request' = new_request(headers)
    /\ pc' = IF request'.method # NULL THEN "BUILD_RESPONSE" ELSE "CLOSE"
    /\ heap' = new_request_blocks(heap, headers)
    /\ UNCHANGED <<configuration, wire, fill, buffer, read_ptr, headers, body,
                   response, reason_str, encodes, sock, sends, frees, ub>>

\* handle_request: display_request_details and the Response initialiser;
\* strdup(NULL) crashes or returns NULL
BuildResponse ==
    /\ pc = "BUILD_RESPONSE"
    /\ response' = [EmptyResponse EXCEPT !.http_version = request.http_version,
                                         !.body = HelloPage,
                                         !.code = 200]
    /\ IF request.http_version = NULL
       THEN /\ ub' = ub \cup {"null pointer read"}
            /\ pc' \in {"ENCODE", "crashed"}
       ELSE /\ ub' = ub
            /\ pc' = "ENCODE"
    /\ heap' = malloc(heap, "response.http_version" :> Ptr(request.http_version)
                            @@ "response.body" :> 1)
    /\ UNCHANGED <<configuration, wire, fill, buffer, read_ptr, headers, body,
                   request, reason_str, encodes, sock, sends, frees>>

\* the state after a call of encode(&response)
Encoded(next) ==
    \E stray \in StrayStatus(response.code) :
        LET e == encode(response, stray)
        IN  /\ pc' \in (IF e.must_crash THEN {} ELSE {next})
                          \cup (IF e.must_crash \/ e.may_crash
                                THEN {"crashed"} ELSE {})
            /\ response' = IF pc' = "crashed" THEN e.crashed ELSE e.response
            /\ reason_str' = reason(response.code, stray)
            /\ encodes' = encodes + 1
            /\ ub' = ub \cup e.ub
            /\ heap' = encode_blocks(heap, response, stray)
            /\ UNCHANGED <<configuration, wire, fill, buffer, read_ptr,
                           headers, body, request, sock, sends, frees>>

\* send_response: encode(response)
Encode ==
    /\ pc = "ENCODE"
    /\ Encoded("SEND")

\* send_response with response_length > max_ressize as the size test
Send_SizeTestStrict ==
    LET response_length == Len(response.encoded_response)
    IN  /\ pc = "SEND"
        /\ IF response.encoded_response = NULL
              \/ response_length > configuration.max_ressize
           THEN UNCHANGED <<sock, sends>>
           ELSE \E bytes_sent \in SendResults(response_length) :
                    /\ sock' = Append(sock, "send")
                    /\ sends' = Append(sends, [len |-> response_length,
                                               ret |-> bytes_sent])
        /\ frees' = Append(frees, "response")
        /\ heap' = free_response(heap, response)
        /\ pc' = "CLOSE"
        /\ UNCHANGED <<configuration, wire, fill, buffer, read_ptr, headers,
                       body, request, response, reason_str, encodes, ub>>

\* send_response calling send again for the rest after a partial send
Send_Resend ==
    LET response_length == Len(response.encoded_response)
    IN  /\ pc = "SEND"
        /\ IF response.encoded_response = NULL
              \/ response_length >= configuration.max_ressize
           THEN UNCHANGED <<sock, sends>>
           ELSE \E bytes_sent \in SendResults(response_length) :
                    IF bytes_sent >= 0 /\ bytes_sent < response_length
                    THEN /\ sock' = sock \o <<"send", "send">>
                         /\ sends' = sends \o
                                <<[len |-> response_length, ret |-> bytes_sent],
                                  [len |-> response_length - bytes_sent,
                                   ret |-> response_length - bytes_sent]>>
                    ELSE /\ sock' = Append(sock, "send")
                         /\ sends' = Append(sends, [len |-> response_length,
                                                    ret |-> bytes_sent])
        /\ frees' = Append(frees, "response")
        /\ heap' = free_response(heap, response)
        /\ pc' = "CLOSE"
        /\ UNCHANGED <<configuration, wire, fill, buffer, read_ptr, headers,
                       body, request, response, reason_str, encodes, ub>>

\* send_response after encode: the two early returns, send, free_response
Send ==
    LET response_length == Len(response.encoded_response)
    IN  /\ pc = "SEND"
        /\ IF response.encoded_response = NULL
              \/ response_length >= configuration.max_ressize
           THEN UNCHANGED <<sock, sends>>
           ELSE \E bytes_sent \in SendResults(response_length) :
                    /\ sock' = Append(sock, "send")
                    /\ sends' = Append(sends, [len |-> response_length,
                                               ret |-> bytes_sent])
        /\ frees' = Append(frees, "response")
        /\ heap' = free_response(heap, response)
        /\ pc' = "CLOSE"
        /\ UNCHANGED <<configuration, wire, fill, buffer, read_ptr, headers,
                       body, request, response, reason_str, encodes, ub>>

\* free_request_resources: free_request closes the socket
FreeRequestResources ==
    /\ pc = "CLOSE"
    /\ frees' = Append(frees, "request")
    /\ heap' = free_request_resources(heap, request, headers, body)
    /\ sock' = Append(sock, "close")
    /\ pc' = "done"
    /\ UNCHANGED <<configuration, wire, fill, buffer, read_ptr, headers, body,
                   request, response, reason_str, encodes, sends, ub>>

---------------------------------------------------------------------------
(* Specifications *)

\* all sequences over S of length at most n
SeqsUpTo(S, n) == UNION {[1..k -> S] : k \in 0..n}

\* values found in uninitialised stack bytes
Fills == {NUL, LF}

\* the configuration of main()
DefaultSize == 8192

\* --- Spec: handle_request on a connection whose peer sends one of Wires ---

GetLine == <<"G", "E", "T", SP, "/", SP, "H", "T", "T", "P", "/", "1", ".", "1">>
Wires ==
    { <<>>,
      GetLine \o <<CR, LF>> \o <<"H", "o", "s", "t", COLON, SP, "x">> \o SEPARATOR \o <<"h", "e", "l", "l", "o">>,
      GetLine \o SEPARATOR,
      GetLine \o <<CR, LF>> \o <<"H", "o", "s", "t", COLON, SP, "x">> \o <<CR, LF>>,
      GetLine \o <<CR, LF>> \o <<"H", "o", "s", "t", SP, "x">> \o SEPARATOR,
      <<"G", "E", "T", SP, "/">> \o SEPARATOR,
      <<"G", "E", "T">> \o SEPARATOR }

\* max_reqsize: smaller and larger than the requests of Wires
ReqSizes == {16, 64}

\* max_ressize: the length of the response of handle_request, and main()'s
ResSizes == {98, DefaultSize}

Init ==
    /\ pc = "READ_FRAME"
    /\ configuration \in [max_reqsize : ReqSizes, max_ressize : ResSizes]
    /\ wire \in Wires
    /\ fill \in Fills
    /\ buffer = <<>>
    /\ read_ptr = 0
    /\ headers = NULL
    /\ body = NULL
    /\ request = EmptyRequest
    /\ response = EmptyResponse
    /\ reason_str = NULL
    /\ encodes = 0
    /\ sock = <<>>
    /\ sends = <<>>
    /\ frees = <<>>
    /\ ub = {}
    /\ heap = NoBlocks

Next ==
    \/ RecvWire
    \/ LoopEnd
    \/ NoHeaders
    \/ ParseRequest
    \/ BuildResponse
    \/ Encode
    \/ Send
    \/ FreeRequestResources

Spec == Init /\ [][Next]_vars

\* --- SpecDecode: http_decode on any bytes, split in any way ---

MaxReqSize == 6
StreamBytes == {CR, LF, "a", NUL}

\* recv stores any bytes_read bytes
RecvAny ==
    \E bytes_read \in -1..(configuration.max_reqsize - read_ptr) :
        \E chunk \in [1..bytes_read -> StreamBytes] :
            Recv(bytes_read, chunk)

InitDecode ==
    /\ pc = "READ_FRAME"
    /\ configuration = [max_reqsize |-> MaxReqSize, max_ressize |-> DefaultSize]
    /\ wire = <<>>
    /\ fill \in Fills
    /\ buffer = <<>>
    /\ read_ptr = 0
    /\ headers = NULL
    /\ body = NULL
    /\ request = EmptyRequest
    /\ response = EmptyResponse
    /\ reason_str = NULL
    /\ encodes = 0
    /\ sock = <<>>
    /\ sends = <<>>
    /\ frees = <<>>
    /\ ub = {}
    /\ heap = NoBlocks

NextDecode == RecvAny \/ LoopEnd

SpecDecode == InitDecode /\ [][NextDecode]_vars

\* --- SpecParse: handle_request from new_request on, on any header text ---

MaxBlock == 7
ParseBytes == {SP, COLON, LF, "a"}

InitParse ==
    /\ pc = "PARSE_REQUEST"
    /\ configuration = [max_reqsize |-> DefaultSize, max_ressize |-> DefaultSize]
    /\ wire = <<>>
    /\ fill = NUL
    /\ buffer = <<>>
    /\ read_ptr = 0
    /\ headers \in SeqsUpTo(ParseBytes, MaxBlock)
    /\ body = NULL
    /\ request = EmptyRequest
    /\ response = EmptyResponse
    /\ reason_str = NULL
    /\ encodes = 0
    /\ sock = <<>>
    /\ sends = <<>>
    /\ frees = <<>>
    /\ ub = {}
    /\ heap = http_decode_blocks(NoBlocks, headers, body)

NextParse ==
    \/ ParseRequest
    \/ BuildResponse
    \/ Encode
    \/ Send
    \/ FreeRequestResources

SpecParse == InitParse /\ [][NextParse]_vars

\* --- SpecEncode: send_response on any response ---

MaxHeaders == 2
MaxEncodes == 2
MaxBody == 12
LongLen == 500

HTTP10 == <<"H", "T", "T", "P", "/", "1", ".", "0">>
Codes == {200, 201, 204, 0, 512, 712, -1}
Bodies == {[i \in 1..n |-> "b"] : n \in {0, 1, MaxBody}}
CallerHeaders == {<<<<"A">>, <<"1">>>>, <<<<"B">>, [i \in 1..LongLen |-> "v"]>>}

\* the caller sets a header of the response before it is sent
CallerAddHeader ==
    /\ pc = "ENCODE"
    /\ encodes = 0
    /\ response.header_count < MaxHeaders
    /\ \E h \in CallerHeaders : response' = add_header(response, h[1], h[2])
    /\ heap' = malloc(heap, "response.headers" :> 1)
    /\ UNCHANGED <<pc, configuration, wire, fill, buffer, read_ptr, headers,
                   body, request, reason_str, encodes, sock, sends, frees, ub>>

\* a caller calls encode itself, before send_response does
CallerEncode ==
    /\ pc = "ENCODE"
    /\ encodes < MaxEncodes
    /\ Encoded("ENCODE")

InitEncode ==
    /\ pc = "ENCODE"
    /\ configuration \in [max_reqsize : {DefaultSize},
                          max_ressize : {10, 58, DefaultSize}]
    /\ wire = <<>>
    /\ fill = NUL
    /\ buffer = <<>>
    /\ read_ptr = 0
    /\ headers = NULL
    /\ body = NULL
    /\ request = EmptyRequest
    /\ \E code \in Codes, version \in {HTTP11, HTTP10}, text \in Bodies :
           response = [EmptyResponse EXCEPT !.code = code,
                                            !.http_version = version,
                                            !.body = text]
    /\ reason_str = NULL
    /\ encodes = 0
    /\ sock = <<>>
    /\ sends = <<>>
    /\ frees = <<>>
    /\ ub = {}
    /\ heap = malloc(NoBlocks, "response.http_version" :> Ptr(response.http_version)
                               @@ "response.body" :> Ptr(response.body))

NextEncode ==
    \/ CallerAddHeader
    \/ CallerEncode
    \/ Encode
    \/ Send
    \/ FreeRequestResources

SpecEncode == InitEncode /\ [][NextEncode]_vars

---------------------------------------------------------------------------
(* Properties *)

\* the non-empty lines of a header block, split at LF
RECURSIVE SplitLF(_)
SplitLF(s) ==
    IF s = <<>> THEN <<>>
    ELSE IF strchr(s, LF) = 0 THEN <<s>>
    ELSE <<SubSeq(s, 1, strchr(s, LF) - 1)>> \o SplitLF(From(s, strchr(s, LF) + 1))

NonEmpty(l) == l # <<>>
Lines(s) == SelectSeq(SplitLF(s), NonEmpty)

\* how often byte c occurs in s
CountOf(s, c) == Cardinality({i \in 1..Len(s) : s[i] = c})

Parsed == pc # "PARSE_REQUEST"
HasRequestLine == headers # NULL /\ Lines(headers) # <<>>
RequestLineValid == HasRequestLine /\ CountOf(Lines(headers)[1], SP) >= 2
RequestLineShort == HasRequestLine /\ CountOf(Lines(headers)[1], SP) < 2

\* the positions, among the lines after the request line, of those without a colon
ColonLess == {k \in 2..Len(Lines(headers)) : CountOf(Lines(headers)[k], COLON) = 0}
FirstColonLess == CHOOSE k \in ColonLess : \A j \in ColonLess : k <= j

\* C1: a header block whose first line holds fewer than two spaces yields a
\* request with no method, a header count of 0 and an empty header list.
C1_ShortRequestLineRejected ==
    (Parsed /\ RequestLineShort)
        => /\ request.method = NULL
           /\ request.header_count = 0
           /\ request.headers = <<>>

\* C2: when the request line holds fewer than two spaces or a header line
\* holds no colon, handle_request goes from PARSE_REQUEST to CLOSE: it builds
\* no response, does not call encode and sends nothing.
C2_InvalidRequestNoResponse ==
    (HasRequestLine /\ (RequestLineShort \/ ColonLess # {}))
        => /\ pc \in {"PARSE_REQUEST", "CLOSE", "done"}
           /\ response = EmptyResponse
           /\ encodes = 0
           /\ sends = <<>>

\* C3: with a valid request line, a header line without a colon leaves the
\* method unset, and the header count is the number of header lines before
\* the first such line, wherever it stands.
C3_ColonLessLineStopsParsing ==
    (Parsed /\ RequestLineValid /\ ColonLess # {})
        => /\ request.method = NULL
           /\ request.header_count = FirstColonLess - 2
           /\ Len(request.headers) = FirstColonLess - 2

\* C3 witness: parsing stopped at a colon-less line that a line with a colon follows
C3_Witness ==
    /\ pc = "CLOSE"
    /\ RequestLineValid
    /\ ColonLess # {}
    /\ \E k \in 2..Len(Lines(headers)) :
           k > FirstColonLess /\ CountOf(Lines(headers)[k], COLON) > 0

\* the handler has returned or the process has died
Ended == pc \in {"done", "crashed"}

\* C4: on every path through handle_request the connection is closed, once,
\* and no recv or send is issued on it after the close.
C4_ClosedExactlyOnce ==
    /\ \A i \in 1..Len(sock) : sock[i] = "close" => i = Len(sock)
    /\ Ended => (sock # <<>> /\ sock[Len(sock)] = "close")

\* the encoded response is as long as max_ressize or longer
Oversize ==
    /\ response.encoded_response # NULL
    /\ Len(response.encoded_response) >= configuration.max_ressize

\* C5: an encoded response of max_ressize bytes or more is not sent: send is
\* not called, the response is released, and the handler closes the connection.
C5_OversizeNotSent ==
    (pc \in {"CLOSE", "done"} /\ Oversize)
        => /\ sends = <<>>
           /\ CountOf(sock, "send") = 0
           /\ CountOf(frees, "response") = 1
           /\ pc = "done" => sock = <<"close">>

\* C5 witness: a response of exactly max_ressize bytes went through send_response
C5_Witness ==
    /\ pc = "done"
    /\ Oversize
    /\ Len(response.encoded_response) = configuration.max_ressize

\* the reason phrases of the status table, by code
KnownPhrase(code) ==
    CASE code = 200 -> OK
      [] code = 201 -> Created
      [] code = 204 -> NoContent
      [] OTHER -> NULL

KnownCode == KnownPhrase(response.code) # NULL

\* C6: encoding a response whose code is not in the status table produces
\* nothing: encoded_response stays unset, no Content-Length or Connection
\* header is appended, nothing is sent and the connection is closed.
C6_UnknownCodeNoOutput ==
    (~KnownCode /\ encodes > 0)
        => /\ response.encoded_response = NULL
           /\ \A i \in 1..Len(response.headers) :
                  response.headers[i][1] \notin {ContentLength, Connection}
           /\ sends = <<>>
           /\ pc # "crashed"
           /\ pc = "done" => sock = <<"close">>

\* C7: reason() returns the phrase for 200, 201 and 204 and not-found for
\* every other code, and never reads outside statuses[0..511].
C7_ReasonLookup ==
    encodes > 0
        => /\ reason_str = KnownPhrase(response.code)
           /\ "read outside statuses" \notin ub

\* the header lines of a list: <name>: <value> CRLF for each entry, in order
RECURSIVE HeaderLines(_)
HeaderLines(hs) ==
    IF hs = <<>> THEN <<>>
    ELSE Head(hs)[1] \o <<COLON, SP>> \o Head(hs)[2] \o <<CR, LF>>
             \o HeaderLines(Tail(hs))

\* the number of headers the caller has set
CallerCount ==
    Cardinality({i \in 1..Len(response.headers) : response.headers[i] \in CallerHeaders})

\* the encoded response after its first line
AfterStatusLine ==
    From(response.encoded_response, strstr(response.encoded_response, <<CR, LF>>) + 2)

\* C8: encoding a response with a known code and N caller headers leaves N+2
\* headers, the N of the caller, then one Content-Length with the decimal
\* length of the body and one Connection: close, and emits a line for each.
C8_TwoHeadersAdded ==
    (KnownCode /\ encodes = 1)
        => /\ pc # "crashed"
           /\ response.header_count = CallerCount + 2
           /\ Len(response.headers) = CallerCount + 2
           /\ \A i \in 1..CallerCount : response.headers[i] \in CallerHeaders
           /\ response.headers[CallerCount + 1]
                  = <<ContentLength, Decimal(Len(response.body))>>
           /\ response.headers[CallerCount + 2] = <<Connection, close>>
           /\ response.encoded_response # NULL
           /\ AfterStatusLine
                  = HeaderLines(response.headers) \o <<CR, LF>> \o response.body

\* C9: for a known code the encoded output is <version> <code> <reason> CRLF
\* with the version of the response, every header line in list order, one
\* blank CRLF, and the body with nothing after it.
C9_EncodedLayout ==
    (KnownCode /\ encodes = 1)
        => /\ pc # "crashed"
           /\ response.encoded_response
                  = response.http_version \o <<SP>> \o Decimal(response.code)
                        \o <<SP>> \o KnownPhrase(response.code) \o <<CR, LF>>
                        \o HeaderLines(response.headers) \o <<CR, LF>>
                        \o response.body

\* the place of the first separator in the bytes received
SepAt == strstr(buffer, SEPARATOR)

\* C10: however the bytes are split over recv calls, when the first
\* separator ends within the first max_reqsize-1 bytes, http_decode returns
\* the bytes before it as header text and the bytes received after it as body,
\* and header length + 4 + body length is at most max_reqsize.
C10_SplitAtFirstSeparator ==
    (pc # "READ_FRAME" /\ SepAt # 0 /\ SepAt + 3 <= configuration.max_reqsize - 1)
        => /\ headers = SubSeq(buffer, 1, SepAt - 1)
           /\ body = From(buffer, SepAt + 4)
           /\ Len(headers) + 4 + Len(body) <= configuration.max_reqsize

\* --- C11 ---

HelloRequest ==
    <<"G", "E", "T", SP, "/", SP, "H", "T", "T", "P", "/", "1", ".", "1", CR, LF,
      "H", "o", "s", "t", COLON, SP, "x", CR, LF, CR, LF, "h", "e", "l", "l", "o">>

\* the whole of HelloRequest was received and the parser has run on its frame
HelloParsed ==
    /\ buffer = HelloRequest
    /\ pc \notin {"READ_FRAME", "PARSE_REQUEST"}

\* C11: when the whole request "GET / HTTP/1.1\r\nHost: x\r\n\r\nhello" has
\* arrived, the frame reader and the parser yield method "GET", path "/" and
\* version "HTTP/1.1" with no line terminator in them, exactly one header
\* "Host" -> "x", and the body "hello".
C11_HelloRequestParsed ==
    HelloParsed
        => /\ request.method = <<"G", "E", "T">>
           /\ request.path = <<"/">>
           /\ request.http_version = HTTP11
           /\ \A f \in {request.method, request.path, request.http_version} :
                  \A i \in 1..Len(f) : f[i] \notin {CR, LF}
           /\ request.header_count = 1
           /\ request.headers = << <<<<"H", "o", "s", "t">>, <<"x">>>> >>
           /\ body = <<"h", "e", "l", "l", "o">>

\* --- C12 ---

\* s without the whitespace at its two ends
Strip(s) ==
    LET keep == {i \in 1..Len(s) : ~isspace(s[i])}
        first == CHOOSE i \in keep : \A j \in keep : i <= j
        last == CHOOSE i \in keep : \A j \in keep : j <= i
    IN  IF keep = {} THEN <<>> ELSE SubSeq(s, first, last)

\* the (name, value) pair of a header line that holds a colon
PairOf(line) ==
    LET colons == {i \in 1..Len(line) : line[i] = COLON}
        first == CHOOSE i \in colons : \A j \in colons : i <= j
    IN  <<Strip(SubSeq(line, 1, first - 1)), Strip(SubSeq(line, first + 1, Len(line)))>>

HeaderLineCount == Len(Lines(headers)) - 1
AllHeaderLinesValid == RequestLineValid /\ ColonLess = {}

\* C12: with a valid request line followed by N header lines that each hold a
\* colon, the request is valid, its header count is N, and its list holds, from
\* head to tail, the trimmed (name, value) pairs of the lines split at their
\* first colon, the last line's pair first.
C12_HeadersMostRecentFirst ==
    (Parsed /\ AllHeaderLinesValid)
        => /\ request.method # NULL
           /\ request.header_count = HeaderLineCount
           /\ request.headers =
                  [k \in 1..HeaderLineCount |->
                      PairOf(Lines(headers)[HeaderLineCount + 2 - k])]

\* two header lines with different pairs have been parsed
C12_Witness ==
    /\ Parsed
    /\ AllHeaderLinesValid
    /\ HeaderLineCount = 2
    /\ request.headers[1] # request.headers[2]

\* --- C13 ---

\* a step in which recv returned 0 or less: a call was made, nothing was stored
RecvFailed ==
    /\ pc = "READ_FRAME"
    /\ sock' = Append(sock, "recv")
    /\ read_ptr' = read_ptr

\* http_decode has returned without a byte read
NothingRead == pc # "READ_FRAME" /\ read_ptr = 0

\* C13: a recv that returns 0 or less ends the read loop at once, with no
\* further recv; and when no byte was ever read, the header text and the body
\* are absent and handle_request closes the connection without parsing and
\* without sending.
C13_RecvFailureEndsReading ==
    /\ [][RecvFailed => (pc' # "READ_FRAME" /\ buffer' = buffer /\ body' = NULL)]_vars
    /\ [][(pc # "READ_FRAME") => (recv_calls' = recv_calls)]_vars
    /\ [](NothingRead
            => /\ headers = NULL
               /\ body = NULL
               /\ request = EmptyRequest
               /\ response = EmptyResponse
               /\ encodes = 0
               /\ sends = <<>>
               /\ pc \in {"PARSE_REQUEST", "done"}
               /\ (pc = "done" => sock = <<"recv", "close">>))

\* the first recv failed while the peer had bytes to send, and the handler is done
C13_Witness ==
    /\ NothingRead
    /\ wire # <<>>
    /\ pc = "done"
    /\ sock = <<"recv", "close">>

\* --- C14 ---

\* send_response has returned
SendResponseReturned == encodes > 0 /\ pc \in {"CLOSE", "done"}

\* C14: on a connection at most one response is built, encode is called once
\* on it and never without it, send is called at most once (a partial send
\* is not followed by another send), and the response has been destroyed
\* once whenever send_response has returned.
C14_OneResponseOneSend ==
    /\ encodes <= 1
    /\ Len(sends) <= 1
    /\ CountOf(frees, "response") <= 1
    /\ (response = EmptyResponse) => (encodes = 0 /\ sends = <<>>)
    /\ (response # EmptyResponse /\ pc \in {"SEND", "CLOSE", "done"}) => encodes = 1
    /\ (sends # <<>>) => sends[1].len = Len(response.encoded_response)
    /\ SendResponseReturned => CountOf(frees, "response") = 1
    /\ (encodes = 0) => CountOf(frees, "response") = 0

\* the handler is done after a send that took only a part of the response
C14_Witness ==
    /\ pc = "done"
    /\ Len(sends) = 1
    /\ sends[1].ret >= 0
    /\ sends[1].ret < sends[1].len
    /\ CountOf(frees, "response") = 1

\* --- C15 ---

\* the header list of the response before and after a step
HeadersGrew == response'.headers # response.headers
EarlierKept ==
    /\ Len(response'.headers) > Len(response.headers)
    /\ SubSeq(response'.headers, 1, Len(response.headers)) = response.headers
OneCallerHeaderAtTail ==
    /\ Len(response'.headers) = Len(response.headers) + 1
    /\ response'.headers[Len(response'.headers)] \in CallerHeaders

\* C15: whatever add_header calls are made on a response, each call puts its
\* pair at the tail and leaves the earlier entries as they were, so the list
\* holds the pairs in the order of the calls, and header_count is the number
\* of entries of the list.
C15_AddHeaderAppends ==
    /\ [][HeadersGrew => EarlierKept]_vars
    /\ [][(HeadersGrew /\ encodes' = encodes) => OneCallerHeaderAtTail]_vars
    /\ [](response.header_count = Len(response.headers))

\* two different headers were added, one after the other
C15_Witness ==
    /\ encodes = 0
    /\ response.header_count = 2
    /\ response.headers[1] # response.headers[2]

\* --- C16 ---

\* the step in which http_decode leaves its loop
LoopLeft == pc = "READ_FRAME" /\ pc' # "READ_FRAME"

\* the loop was left because no more than one byte of capacity remained
CapacityExit ==
    /\ pc # "READ_FRAME"
    /\ body = NULL
    /\ read_ptr >= configuration.max_reqsize - 1

\* C16: the read loop makes at most max_reqsize - 1 recv calls; it is left only
\* because the separator was found, because recv returned 0 or less, or because
\* at most one byte of capacity remains; and in that last case all the bytes
\* accumulated are returned as the header text, with no body.
C16_ReadLoopBounded ==
    /\ [](recv_calls <= configuration.max_reqsize - 1)
    /\ [][LoopLeft => \/ body' # NULL
                      \/ RecvFailed
                      \/ read_ptr >= configuration.max_reqsize - 1]_vars
    /\ [](CapacityExit => (pc # "crashed" /\ headers = buffer))

\* --- C17 ---

\* handle_request has returned
Returned == pc = "done"

\* C17: when handle_request returns, every block allocated for the
\* connection has been released exactly once: no kind of block has a live
\* block left, and none was released more often than it was allocated.
C17_NoLeakNoDoubleFree ==
    /\ \A k \in HeapKinds : heap[k] >= 0
    /\ Returned => \A k \in HeapKinds : heap[k] = 0

\* --- C18 ---

\* the number of entries of the response's header list that are the pair h
HeaderCopies(h) ==
    Cardinality({i \in 1..Len(response.headers) : response.headers[i] = h})

\* C18: after k calls of encode on one response with a known code, the header
\* list holds exactly k Content-Length headers (each with the decimal length
\* of the body) and k Connection: close headers: header_count has grown by 2
\* with each call.
C18_EncodeNotIdempotent ==
    KnownCode
        => /\ HeaderCopies(<<ContentLength, Decimal(Len(response.body))>>) = encodes
           /\ HeaderCopies(<<Connection, close>>) = encodes
           /\ response.header_count = CallerCount + 2 * encodes
           /\ Len(response.headers) = response.header_count

\* encode has returned for the third time on a response with a known code
C18_Witness ==
    /\ KnownCode
    /\ encodes = 3
    /\ pc = "SEND"
    /\ response.encoded_response # NULL
    /\ HeaderCopies(<<Connection, close>>) = 3

\* --- C19 ---

\* the bytes construct_headers writes for the header list hs, the final zero
\* byte not counted: name, ": ", value, "\r\n" for each header
RECURSIVE HeaderBytes(_)
HeaderBytes(hs) ==
    IF hs = <<>> THEN 0
    ELSE Len(Head(hs)[1]) + 2 + Len(Head(hs)[2]) + 2 + HeaderBytes(Tail(hs))

\* C19: the text construct_headers writes, the sum over the headers of
\* name + 2 + value + 2 bytes plus one terminating byte, never exceeds the
\* header_count * 160 bytes allocated for it, and encode runs into no write
\* past that block.
C19_HeaderTextFits ==
    (encodes > 0 /\ KnownCode)
        => /\ HeaderBytes(response.headers) + 1 <= response.header_count * 160
           /\ "write past headers_str" \notin ub

\* --- C20 ---

\* C20: every index http_decode writes in the receive buffer is below
\* max_reqsize: read_ptr never exceeds max_reqsize, the bytes stored by the
\* recv calls stay within the array, and the terminator written at
\* buffer[read_ptr] after the loop lands inside the array, also when the last
\* recv has filled it completely.
C20_WritesInsideBuffer ==
    /\ read_ptr <= configuration.max_reqsize
    /\ Len(buffer) = read_ptr
    /\ (pc # "READ_FRAME" /\ body = NULL) => read_ptr < configuration.max_reqsize
    /\ "write past buffer" \notin ub

\* --- C21 ---

\* s is the start of the bytes received
ReceivedPrefix(s) == Len(s) <= read_ptr /\ SubSeq(buffer, 1, Len(s)) = s

\* C21: every byte of the header text and of the body that http_decode
\* returns is a byte received: the separator search and the body copy read no
\* buffer position at or beyond read_ptr, so a separator is reported only
\* with its four bytes among the bytes received, and the body ends with them.
C21_OnlyReceivedBytes ==
    /\ "uninitialised read" \notin ub
    /\ "read past buffer" \notin ub
    /\ (body # NULL) => ReceivedPrefix(headers \o SEPARATOR \o body)
    /\ (body = NULL /\ headers # NULL) => ReceivedPrefix(headers)

=============================================================================
